---- MODULE Spec2Model ----
(***************************************************************************)
(* ContentFlow backend: the processing-job lifecycle (generate_content,    *)
(* process_content_task, delete_content) over the tables                  *)
(* contents and processing_jobs, and the WebSocket notification channel    *)
(* (websocket_endpoint, broadcast_update, active_connections), and the     *)
(* read endpoints (list_contents, get_content, get_job_status,             *)
(* export_content) with the responses a client is given.                   *)
(*                                                                         *)
(* Every await of the source is one step.  A database round trip (commit,  *)
(* refresh, get) either succeeds or raises.  The ORM session keeps the     *)
(* in-memory ProcessingJob object (variable job) apart from the persisted  *)
(* row (variable processing_jobs): attribute assignments are pending until *)
(* a commit flushes them, and a commit that raises rolls the transaction   *)
(* back, which discards the pending assignments.                           *)
(***************************************************************************)
EXTENDS Integers, Sequences, FiniteSets, TLC

\* ------------------------------------------------------------------ bounds
MaxSubmissions == 2
MaxConnections == 2
MaxPushes == 2

\* ------------------------------------------------------------------ values
NULL == "NULL"

PENDING == "pending"
PROCESSING == "processing"
COMPLETED == "completed"
FAILED == "failed"
CANCELLED == "cancelled"
ProcessingStatusEnum == {PENDING, PROCESSING, COMPLETED, FAILED, CANCELLED}
Terminal == {COMPLETED, FAILED, CANCELLED}

Ids == 1..MaxSubmissions
Urls == {"https://x.com/a"}
Connections == 1..MaxConnections
\* The messages a caller may push: {type, data}
Messages == { [type |-> "progress", data |-> 20], [type |-> "complete", data |-> 100] }

\* str(e) of the exceptions a database round trip or a conversion may raise
Errors == {"connection refused", "database is locked"}

\* What the extractor may return: a dict that may lack keys.
ExtractResults ==
    { [text |-> "T", summary |-> "S", key_points |-> <<"p1">>],
      [text |-> "T"] }
\* What the generator may return: a mapping content type -> generated body.
GenerateResults == { [blog_post |-> "B"] }

VARIABLES
    nsub,             \* number of submissions handled so far (uuid4 draws)
    contents,         \* table contents: content id -> row
    processing_jobs,  \* table processing_jobs: job id -> row
    background_tasks, \* sequence of scheduled (job_id, session_id) runs
    responses,        \* submission -> what generate_content answered
    pc,               \* job id -> position of its process_content_task run
    job,              \* job id -> the session's in-memory ProcessingJob
    content_data,     \* job id -> the extractor's result held by the run
    generated,        \* job id -> the generator's result held by the run
    calls,            \* job id -> the run's external calls in order, each
                      \* followed by "raised" when it raised
    active_connections, \* session id -> registered connection
    websockets,       \* connection -> [session_id, state]
    delivered,        \* connection -> messages sent to it
    npush,            \* number of broadcast_update calls so far
    pushed,           \* the session ids broadcast_update was called with
    last_push,        \* the outcome of the last broadcast_update call
    reply             \* the last REST request of the client under observation
                      \* and the response it was given

jobvars == <<nsub, contents, processing_jobs, background_tasks, responses,
             pc, job, content_data, generated, calls>>
wsvars == <<active_connections, websockets, delivered, npush, pushed, last_push>>
vars == <<jobvars, wsvars, reply>>

\* ---------------------------------------------------------------- helpers
\* dict.get(key, default)
Get(d, key, default) == IF key \in DOMAIN d THEN d[key] ELSE default

\* f with key k bound to v (insert or overwrite)
Put(f, k, v) == [x \in DOMAIN f \cup {k} |-> IF x = k THEN v ELSE f[x]]

\* f without the keys in ks
Without(f, ks) == [x \in DOMAIN f \ ks |-> f[x]]

\* datetime.utcnow(): no branch of the program reads a datetime, so every
\* instant is the one non-null value
utcnow == "utcnow"

\* int((t - started_at).total_seconds() * 1000)
ElapsedMs(t, started_at) == "elapsed_ms"

\* uuid4 as a generator that repeats itself
uuid4_repeats(n) == 1

\* uuid4(): the n-th draw is a value no earlier draw returned
uuid4(n) == n

\* Content(...) as generate_content constructs it
NewContent(url) ==
    [ source_url |-> url, raw_text |-> NULL, summary |-> NULL,
      key_points |-> <<>>, generated_content |-> <<>>,
      processing_time_ms |-> NULL ]

\* ProcessingJob(...) as generate_content constructs it, with column defaults
NewJob(cid, sid) ==
    [ content_id |-> cid, status |-> PENDING, progress_percent |-> 0,
      current_step |-> NULL, error_message |-> NULL, error_code |-> NULL,
      started_at |-> NULL, completed_at |-> NULL, session_id |-> sid,
      updated_at |-> 0 ]

\* A local name of a run that is not bound (yet, or any more)
Unbound == [unbound |-> TRUE]

\* The UPDATE a commit flushes: the pending attributes are written and the
\* column updated_at (onupdate) moves on.  updated_at is kept as the number of
\* UPDATEs of the row, so that two writes never look like one.
Flush(obj) == [obj EXCEPT !.updated_at = @ + 1]

\* A failed commit that leaves the pending assignments on the object
RollbackSession_keeps_pending(obj, k) == obj

\* Session rollback after a commit that raised: the pending attribute
\* assignments of the in-memory object are discarded (the object shows the
\* persisted row again); a row that no longer exists leaves the object as is.
RollbackSession(obj, k) ==
    IF k \in DOMAIN processing_jobs THEN processing_jobs[k] ELSE obj

\* ------------------------------------------------------------------- Init
Init ==
    /\ nsub = 0
    /\ contents = <<>>
    /\ processing_jobs = <<>>
    /\ background_tasks = <<>>
    /\ responses = <<>>
    /\ pc = [k \in Ids |-> "unscheduled"]
    /\ job = [k \in Ids |-> Unbound]
    /\ content_data = [k \in Ids |-> Unbound]
    /\ generated = [k \in Ids |-> Unbound]
    /\ calls = [k \in Ids |-> <<>>]
    /\ active_connections = <<>>
    /\ websockets = [c \in Connections |-> [state |-> "none"]]
    /\ delivered = [c \in Connections |-> <<>>]
    /\ npush = 0
    /\ pushed = {}
    /\ last_push = [outcome |-> "none", raised |-> FALSE]
    /\ reply = [request |-> <<>>, response |-> [code |-> 0]]

\* raise HTTPException(status_code, detail): answered by the framework with that
\* status and the body {"detail": detail}
HTTPException(status_code, detail) == [code |-> status_code, detail |-> detail]

\* ------------------------------------------------- POST /v1/generate
\* generate_content: one Content and one ProcessingJob are added and committed
\* together; the job is refreshed; the background run is queued; the 202 body
\* is returned.  A commit or refresh that raises e is answered with a 500 whose
\* detail is str(e).
generate_content ==
    /\ nsub < MaxSubmissions
    /\ \E url \in Urls, committed \in BOOLEAN, refreshed \in BOOLEAN :
        LET n == nsub + 1
            session_id == uuid4(n)
            cid == n
            jid == n
        IN  /\ nsub' = n
            /\ IF committed
               THEN /\ contents' = Put(contents, cid, NewContent(url))
                    /\ processing_jobs' = Put(processing_jobs, jid, NewJob(cid, session_id))
               ELSE UNCHANGED <<contents, processing_jobs>>
            /\ IF committed /\ refreshed
               THEN /\ background_tasks' = Append(background_tasks,
                                              [job_id |-> jid, session_id |-> session_id])
                    /\ pc' = [pc EXCEPT ![jid] = "queued"]
                    /\ responses' = Append(responses,
                           [code |-> 202, job_id |-> jid, session_id |-> session_id,
                            status |-> "queued"])
               ELSE /\ UNCHANGED <<background_tasks, pc>>
                    /\ \E e \in Errors :
                        responses' = Append(responses, HTTPException(500, e))
    /\ UNCHANGED <<job, content_data, generated, calls>>
    /\ UNCHANGED <<wsvars, reply>>

\* ------------------------------------------ DELETE /v1/contents/{id}
\* What DELETE /v1/contents/{id} may answer
DeleteResponses ==
    { HTTPException(404, "Content not found"), [code |-> 204] }
        \cup { HTTPException(500, e) : e \in Errors }

\* delete_content without the relationship's cascade: the jobs stay
delete_content_no_cascade(content_id, response) ==
    /\ \/ /\ content_id \notin DOMAIN contents
          /\ response = HTTPException(404, "Content not found")
          /\ UNCHANGED <<contents, processing_jobs>>
       \/ /\ content_id \in DOMAIN contents
          /\ response = [code |-> 204]
          /\ contents' = Without(contents, {content_id})
          /\ UNCHANGED processing_jobs
       \/ /\ \E e \in Errors : response = HTTPException(500, e)
          /\ UNCHANGED <<contents, processing_jobs>>
    /\ UNCHANGED <<nsub, background_tasks, responses, pc, job, content_data,
                   generated, calls>>
    /\ UNCHANGED wsvars

\* delete_content, with the response it gives: 404 when the content has no
\* row; otherwise the content and, by the relationship's cascade, every job
\* that references it are deleted in one commit (204); when the lookup, the
\* delete or the commit raises e, the transaction is rolled back and the
\* answer is a 500 whose detail is str(e).
delete_content(content_id, response) ==
    /\ \/ /\ content_id \notin DOMAIN contents
          /\ response = HTTPException(404, "Content not found")
          /\ UNCHANGED <<contents, processing_jobs>>
       \/ /\ content_id \in DOMAIN contents
          /\ response = [code |-> 204]
          /\ contents' = Without(contents, {content_id})
          /\ processing_jobs' = Without(processing_jobs,
                 {j \in DOMAIN processing_jobs :
                     processing_jobs[j].content_id = content_id})
       \/ /\ \E e \in Errors : response = HTTPException(500, e)
          /\ UNCHANGED <<contents, processing_jobs>>
    /\ UNCHANGED <<nsub, background_tasks, responses, pc, job, content_data,
                   generated, calls>>
    /\ UNCHANGED wsvars

\* ------------------------------------------------ the read endpoints
\* ContentResponse.from_orm(content): the fields of the response schema
ContentResponse(row) ==
    [ source_url |-> row.source_url, summary |-> row.summary,
      key_points |-> row.key_points, generated_content |-> row.generated_content,
      processing_time_ms |-> row.processing_time_ms ]

\* ProcessingJobResponse.from_orm(job): the fields of the response schema
ProcessingJobResponse(row) ==
    [ content_id |-> row.content_id, status |-> row.status,
      progress_percent |-> row.progress_percent, current_step |-> row.current_step,
      error_message |-> row.error_message, error_code |-> row.error_code,
      started_at |-> row.started_at, completed_at |-> row.completed_at ]

\* _content_to_markdown(content): the string, as the record of its lines, each
\* line the tuple of its parts; no code sets source_title, so the title is
\* 'Untitled'
_content_to_markdown(row) ==
    [ lines |->
        << <<"# ", "Untitled">>, <<"">>, <<"**Source:** ", row.source_url>>, <<"">> >>
        \o (IF row.summary # NULL
            THEN << <<"## Summary">>, <<row.summary>>, <<"">> >>
            ELSE <<>>)
        \o (IF row.key_points # <<>>
            THEN << <<"## Key Points">> >>
                 \o [n \in 1..Len(row.key_points) |-> <<"- ", row.key_points[n]>>]
                 \o << <<"">> >>
            ELSE <<>>) ]

\* The formats a client may ask an export in
Formats == {"json", "markdown", "csv"}

\* str(ValueError(f"Unsupported format: {format}"))
ValueError(format) ==
    CASE format = "csv" -> "Unsupported format: csv"
      [] OTHER -> "Unsupported format"

\* The client under observation is answered
Answer(handler, id, response) ==
    reply' = [request |-> <<handler, id>>, response |-> response]

\* GET /v1/contents/{id}: 404 when the content has no row, else the content;
\* an exception e on the way is answered with a 500 whose detail is str(e).
get_content(content_id) ==
    /\ \/ \E e \in Errors : Answer("get_content", content_id, HTTPException(500, e))
       \/ Answer("get_content", content_id,
                 IF content_id \notin DOMAIN contents
                 THEN HTTPException(404, "Content not found")
                 ELSE [code |-> 200, body |-> ContentResponse(contents[content_id])])
    /\ UNCHANGED <<jobvars, wsvars>>

\* get_job_status without its "except HTTPException: raise": the 404 is caught
\* by "except Exception" and answered as a 500
get_job_status_no_reraise(job_id) ==
    /\ \/ \E e \in Errors : Answer("get_job_status", job_id, HTTPException(500, e))
       \/ Answer("get_job_status", job_id,
                 IF job_id \notin DOMAIN processing_jobs
                 THEN HTTPException(500, "404: Job not found")
                 ELSE [code |-> 200, body |-> ProcessingJobResponse(processing_jobs[job_id])])
    /\ UNCHANGED <<jobvars, wsvars>>

\* GET /v1/jobs/{id}: 404 when the job has no row, else the job's status
\* payload; an exception e on the way is answered with a 500 (detail str(e)).
get_job_status(job_id) ==
    /\ \/ \E e \in Errors : Answer("get_job_status", job_id, HTTPException(500, e))
       \/ Answer("get_job_status", job_id,
                 IF job_id \notin DOMAIN processing_jobs
                 THEN HTTPException(404, "Job not found")
                 ELSE [code |-> 200, body |-> ProcessingJobResponse(processing_jobs[job_id])])
    /\ UNCHANGED <<jobvars, wsvars>>

\* POST /v1/contents/{id}/export: 404 when the content has no row; the content
\* as json or markdown; a format that is neither raises ValueError, which, as
\* any other exception e, is answered with a 500 whose detail is str(e).
export_content(content_id, format) ==
    /\ \/ \E e \in Errors : Answer("export_content", content_id, HTTPException(500, e))
       \/ Answer("export_content", content_id,
                 IF content_id \notin DOMAIN contents
                 THEN HTTPException(404, "Content not found")
                 ELSE IF format = "json"
                 THEN [code |-> 200, body |->
                         [success |-> TRUE, format |-> format,
                          data |-> ContentResponse(contents[content_id])]]
                 ELSE IF format = "markdown"
                 THEN [code |-> 200, body |->
                         [success |-> TRUE, format |-> format,
                          data |-> _content_to_markdown(contents[content_id])]]
                 ELSE HTTPException(500, ValueError(format)))
    /\ UNCHANGED <<jobvars, wsvars>>

\* The contents by created_at, newest first (content ids are in creation order)
RECURSIVE NewestFirst(_)
NewestFirst(ids) ==
    IF ids = {} THEN <<>>
    ELSE LET newest == CHOOSE c \in ids : \A o \in ids : o <= c
         IN  <<newest>> \o NewestFirst(ids \ {newest})

\* items[skip : skip + limit]
Slice(items, skip, limit) ==
    [n \in 1..(IF Len(items) - skip < limit
               THEN (IF Len(items) > skip THEN Len(items) - skip ELSE 0)
               ELSE limit) |-> items[skip + n]]

\* GET /v1/contents: a page of the contents, newest first, with the total;
\* an exception e on the way is answered with a 500 whose detail is str(e).
list_contents(skip, limit) ==
    /\ \/ \E e \in Errors : Answer("list_contents", <<skip, limit>>, HTTPException(500, e))
       \/ LET ids == NewestFirst(DOMAIN contents)
              items == [n \in 1..Len(ids) |-> ContentResponse(contents[ids[n]])]
          IN  Answer("list_contents", <<skip, limit>>,
                     [code |-> 200, body |->
                         [items |-> Slice(items, skip, limit), total |-> Len(items),
                          skip |-> skip, limit |-> limit,
                          has_more |-> (skip + limit) < Len(items)]])
    /\ UNCHANGED <<jobvars, wsvars>>

\* ------------------------------------------- process_content_task
\* The except clause with the wrong terminal status
OnError_cancelled(obj, e) ==
    [obj EXCEPT !.status = CANCELLED, !.error_message = e,
                !.error_code = "PROCESSING_ERROR", !.completed_at = utcnow]

\* The except clause: the error is recorded on the in-memory job; the commit
\* that follows is the step handler_commit.
OnError(obj, e) ==
    [obj EXCEPT !.status = FAILED, !.error_message = e,
                !.error_code = "PROCESSING_ERROR", !.completed_at = utcnow]

\* The results written onto job.content
WriteBack(row, data, gen, started_at) ==
    [row EXCEPT !.raw_text = Get(data, "text", ""),
                !.summary = Get(data, "summary", NULL),
                !.key_points = Get(data, "key_points", <<>>),
                !.generated_content = gen,
                !.processing_time_ms = ElapsedMs(utcnow, started_at)]

\* The job marked as complete
MarkComplete(obj) ==
    [obj EXCEPT !.status = COMPLETED, !.progress_percent = 100,
                !.completed_at = utcnow, !.current_step = "Complete!"]

\* A run whose last statement of the try block raises after the final commit:
\* the except clause runs on the completed job
Exit_into_handler(k, how) ==
    IF how = "returned" /\ pc[k] = "generated"
    THEN /\ job' = [job EXCEPT ![k] = OnError(Flush(MarkComplete(job[k])), "log failed")]
         /\ pc' = [pc EXCEPT ![k] = "handler"]
         /\ UNCHANGED <<content_data, generated>>
    ELSE /\ pc' = [pc EXCEPT ![k] = how]
         /\ job' = [job EXCEPT ![k] = Unbound]
         /\ content_data' = [content_data EXCEPT ![k] = Unbound]
         /\ generated' = [generated EXCEPT ![k] = Unbound]

\* The run ends (it returns, or an exception leaves it): the session is closed
\* and the run's locals are gone.
Exit(k, how) ==
    /\ pc' = [pc EXCEPT ![k] = how]
    /\ job' = [job EXCEPT ![k] = Unbound]
    /\ content_data' = [content_data EXCEPT ![k] = Unbound]
    /\ generated' = [generated EXCEPT ![k] = Unbound]

\* An external call or the write-back raised inside the try block.
Raise(k, e) ==
    /\ job' = [job EXCEPT ![k] = OnError(job[k], e)]
    /\ pc' = [pc EXCEPT ![k] = "handler"]

\* await db.commit() inside the try block with obj the in-memory job: the row
\* becomes obj and the run goes on to next, or the commit raises (always, when
\* the row was deleted meanwhile), the session is rolled back and the except
\* clause runs.
Checkpoint(k, obj, next) ==
    \E committed \in BOOLEAN :
        IF committed /\ k \in DOMAIN processing_jobs
        THEN /\ processing_jobs' = [processing_jobs EXCEPT ![k] = Flush(obj)]
             /\ job' = [job EXCEPT ![k] = Flush(obj)]
             /\ pc' = [pc EXCEPT ![k] = next]
        ELSE /\ UNCHANGED processing_jobs
             /\ job' = [job EXCEPT ![k] = OnError(RollbackSession(obj, k), "commit failed")]
             /\ pc' = [pc EXCEPT ![k] = "handler"]

\* job = await db.get(ProcessingJob, job_id); if not job: return.  When the get
\* raises, the except clause reads the unbound name job and raises in turn.
task_get(k) ==
    /\ pc[k] = "queued"
    /\ \E t \in 1..Len(background_tasks) : background_tasks[t].job_id = k
    /\ \E ok \in BOOLEAN :
        IF ~ok THEN Exit(k, "raised")
        ELSE IF k \notin DOMAIN processing_jobs
             THEN Exit(k, "returned")
             ELSE /\ pc' = [pc EXCEPT ![k] = "loaded"]
                  /\ job' = [job EXCEPT ![k] = processing_jobs[k]]
                  /\ UNCHANGED <<content_data, generated>>
    /\ UNCHANGED <<nsub, contents, processing_jobs, background_tasks, responses,
                   calls>>
    /\ UNCHANGED <<wsvars, reply>>

\* job.status = PROCESSING; job.started_at = utcnow(); await db.commit()
task_start(k) ==
    /\ pc[k] = "loaded"
    /\ Checkpoint(k, [job[k] EXCEPT !.status = PROCESSING, !.started_at = utcnow], "started")
    /\ UNCHANGED <<nsub, contents, background_tasks, responses, content_data, generated, calls>>
    /\ UNCHANGED <<wsvars, reply>>

\* job.current_step = "Extracting content..."; job.progress_percent = 20; commit
task_step_extract(k) ==
    /\ pc[k] = "started"
    /\ Checkpoint(k, [job[k] EXCEPT !.current_step = "Extracting content...",
                                    !.progress_percent = 20], "extracting")
    /\ UNCHANGED <<nsub, contents, background_tasks, responses, content_data, generated, calls>>
    /\ UNCHANGED <<wsvars, reply>>

\* The extractor call with one retry after its first failure
task_extract_retries(k) ==
    /\ pc[k] = "extracting"
    /\ \/ \E r \in ExtractResults :
            /\ calls' = [calls EXCEPT ![k] = Append(@, "extract_content")]
            /\ content_data' = [content_data EXCEPT ![k] = r]
            /\ pc' = [pc EXCEPT ![k] = "extracted"]
            /\ UNCHANGED job
       \/ /\ calls' = [calls EXCEPT ![k] = @ \o <<"extract_content", "raised">>]
          /\ IF calls[k] = <<>>
             THEN UNCHANGED <<pc, job>>
             ELSE Raise(k, "extractor failed")
          /\ UNCHANGED content_data
    /\ UNCHANGED <<nsub, contents, processing_jobs, background_tasks, responses,
                   generated>>
    /\ UNCHANGED <<wsvars, reply>>

\* content_data = await orchestrator.extract_content(...)
task_extract(k) ==
    /\ pc[k] = "extracting"
    /\ \/ \E r \in ExtractResults :
            /\ calls' = [calls EXCEPT ![k] = Append(@, "extract_content")]
            /\ content_data' = [content_data EXCEPT ![k] = r]
            /\ pc' = [pc EXCEPT ![k] = "extracted"]
            /\ UNCHANGED job
       \/ /\ calls' = [calls EXCEPT ![k] = @ \o <<"extract_content", "raised">>]
          /\ Raise(k, "extractor failed")
          /\ UNCHANGED content_data
    /\ UNCHANGED <<nsub, contents, processing_jobs, background_tasks, responses,
                   generated>>
    /\ UNCHANGED <<wsvars, reply>>

\* The second checkpoint assigned but not committed before the generator call
task_step_generate_uncommitted(k) ==
    /\ pc[k] = "extracted"
    /\ job' = [job EXCEPT ![k] = [job[k] EXCEPT !.current_step = "Generating content...",
                                                !.progress_percent = 50]]
    /\ pc' = [pc EXCEPT ![k] = "generating"]
    /\ UNCHANGED processing_jobs
    /\ UNCHANGED <<nsub, contents, background_tasks, responses, content_data, generated, calls>>
    /\ UNCHANGED <<wsvars, reply>>

\* job.current_step = "Generating content..."; job.progress_percent = 50; commit
task_step_generate(k) ==
    /\ pc[k] = "extracted"
    /\ Checkpoint(k, [job[k] EXCEPT !.current_step = "Generating content...",
                                    !.progress_percent = 50], "generating")
    /\ UNCHANGED <<nsub, contents, background_tasks, responses, content_data, generated, calls>>
    /\ UNCHANGED <<wsvars, reply>>

\* generated = await orchestrator.generate_content(...)
task_generate(k) ==
    /\ pc[k] = "generating"
    /\ \/ \E g \in GenerateResults :
            /\ calls' = [calls EXCEPT ![k] = Append(@, "generate_content")]
            /\ generated' = [generated EXCEPT ![k] = g]
            /\ pc' = [pc EXCEPT ![k] = "generated"]
            /\ UNCHANGED job
       \/ /\ calls' = [calls EXCEPT ![k] = @ \o <<"generate_content", "raised">>]
          /\ Raise(k, "generator failed")
          /\ UNCHANGED generated
    /\ UNCHANGED <<nsub, contents, processing_jobs, background_tasks, responses,
                   content_data>>
    /\ UNCHANGED <<wsvars, reply>>

\* Update content with results; mark as complete; await db.commit().  Loading
\* job.content may raise (and does when the content was deleted).
task_complete(k) ==
    /\ pc[k] = "generated"
    /\ LET cid == job[k].content_id IN
       \E loaded \in BOOLEAN, committed \in BOOLEAN :
        IF ~(loaded /\ cid \in DOMAIN contents)
        THEN /\ Raise(k, "write-back failed")
             /\ UNCHANGED <<contents, processing_jobs, content_data, generated>>
        ELSE IF committed /\ k \in DOMAIN processing_jobs
        THEN /\ contents' = [contents EXCEPT ![cid] =
                    WriteBack(@, content_data[k], generated[k], job[k].started_at)]
             /\ processing_jobs' = [processing_jobs EXCEPT ![k] = Flush(MarkComplete(job[k]))]
             /\ Exit(k, "returned")
        ELSE /\ UNCHANGED <<contents, processing_jobs, content_data, generated>>
             /\ job' = [job EXCEPT ![k] =
                    OnError(RollbackSession(MarkComplete(job[k]), k), "commit failed")]
             /\ pc' = [pc EXCEPT ![k] = "handler"]
    /\ UNCHANGED <<nsub, background_tasks, responses, calls>>
    /\ UNCHANGED <<wsvars, reply>>

\* The except clause's commit as an upsert: a row that is gone is written anew
task_handler_commit_upsert(k) ==
    /\ pc[k] = "handler"
    /\ \E committed \in BOOLEAN :
        IF committed
        THEN /\ processing_jobs' = Put(processing_jobs, k, Flush(job[k]))
             /\ pc' = [pc EXCEPT ![k] = "returned"]
             /\ UNCHANGED job
        ELSE /\ UNCHANGED processing_jobs
             /\ job' = [job EXCEPT ![k] = RollbackSession(job[k], k)]
             /\ pc' = [pc EXCEPT ![k] = "raised"]
    /\ UNCHANGED <<nsub, contents, background_tasks, responses, content_data, generated, calls>>
    /\ UNCHANGED <<wsvars, reply>>

\* The except clause's await db.commit(): the job is recorded as FAILED and the
\* run returns, or the commit raises and the exception leaves the task.
task_handler_commit(k) ==
    /\ pc[k] = "handler"
    /\ \E committed \in BOOLEAN :
        IF committed /\ k \in DOMAIN processing_jobs
        THEN /\ processing_jobs' = [processing_jobs EXCEPT ![k] = Flush(job[k])]
             /\ pc' = [pc EXCEPT ![k] = "returned"]
             /\ UNCHANGED job
        ELSE /\ UNCHANGED processing_jobs
             /\ job' = [job EXCEPT ![k] = RollbackSession(job[k], k)]
             /\ pc' = [pc EXCEPT ![k] = "raised"]
    /\ UNCHANGED <<nsub, contents, background_tasks, responses, content_data, generated, calls>>
    /\ UNCHANGED <<wsvars, reply>>

process_content_task(k) ==
    \/ task_get(k)
    \/ task_start(k)
    \/ task_step_extract(k)
    \/ task_extract(k)
    \/ task_step_generate(k)
    \/ task_generate(k)
    \/ task_complete(k)
    \/ task_handler_commit(k)

\* ------------------------------------------- /ws/process/{session_id}
\* A client opens a WebSocket for a session id of its choice; the endpoint
\* awaits websocket.accept().
ws_connect(c, session_id) ==
    /\ websockets[c].state = "none"
    /\ websockets' = [websockets EXCEPT ![c] =
            [session_id |-> session_id, state |-> "accepting"]]
    /\ UNCHANGED <<active_connections, delivered, npush, pushed, last_push>>
    /\ UNCHANGED <<jobvars, reply>>

\* Registration that keeps an earlier entry of the session (first-writer-wins)
ws_accept_keeps_first(c) ==
    /\ websockets[c].state = "accepting"
    /\ \E ok \in BOOLEAN :
        IF ok
        THEN /\ active_connections' =
                    IF websockets[c].session_id \in DOMAIN active_connections
                    THEN active_connections
                    ELSE Put(active_connections, websockets[c].session_id, c)
             /\ websockets' = [websockets EXCEPT ![c].state = "open"]
        ELSE /\ websockets' = [websockets EXCEPT ![c].state = "raised"]
             /\ UNCHANGED active_connections
    /\ UNCHANGED <<delivered, npush, pushed, last_push>>
    /\ UNCHANGED <<jobvars, reply>>

\* accept() returns and active_connections[session_id] = websocket runs (an
\* earlier entry for the session is overwritten), or accept() raises and the
\* endpoint ends before it registers anything.
ws_accept(c) ==
    /\ websockets[c].state = "accepting"
    /\ \E ok \in BOOLEAN :
        IF ok
        THEN /\ active_connections' = Put(active_connections, websockets[c].session_id, c)
             /\ websockets' = [websockets EXCEPT ![c].state = "open"]
        ELSE /\ websockets' = [websockets EXCEPT ![c].state = "raised"]
             /\ UNCHANGED active_connections
    /\ UNCHANGED <<delivered, npush, pushed, last_push>>
    /\ UNCHANGED <<jobvars, reply>>

\* The client goes away: the endpoint's pending receive_text() will raise
\* WebSocketDisconnect when the endpoint next runs.
ws_client_close(c) ==
    /\ websockets[c].state = "open"
    /\ websockets' = [websockets EXCEPT ![c].state = "disconnected"]
    /\ UNCHANGED <<active_connections, delivered, npush, pushed, last_push>>
    /\ UNCHANGED <<jobvars, reply>>

\* except WebSocketDisconnect: del active_connections[session_id], which
\* raises KeyError when the session has no entry.
ws_on_disconnect(c) ==
    /\ websockets[c].state = "disconnected"
    /\ LET sid == websockets[c].session_id IN
       IF sid \in DOMAIN active_connections
       THEN /\ active_connections' = Without(active_connections, {sid})
            /\ websockets' = [websockets EXCEPT ![c].state = "closed"]
       ELSE /\ websockets' = [websockets EXCEPT ![c].state = "raised"]
            /\ UNCHANGED active_connections
    /\ UNCHANGED <<delivered, npush, pushed, last_push>>
    /\ UNCHANGED <<jobvars, reply>>

\* except Exception: receive_text() raised something else; the session's entry
\* is deleted if there is one.
ws_on_error(c) ==
    /\ websockets[c].state = "open"
    /\ active_connections' = Without(active_connections, {websockets[c].session_id})
    /\ websockets' = [websockets EXCEPT ![c].state = "closed"]
    /\ UNCHANGED <<delivered, npush, pushed, last_push>>
    /\ UNCHANGED <<jobvars, reply>>

websocket_endpoint(c) ==
    \/ \E session_id \in Ids : ws_connect(c, session_id)
    \/ ws_accept(c)
    \/ ws_on_disconnect(c)
    \/ ws_on_error(c)

\* broadcast_update without its try/except: a send that raises reaches the caller
broadcast_update_unguarded(session_id, message) ==
    /\ npush < MaxPushes
    /\ npush' = npush + 1
    /\ pushed' = pushed \cup {session_id}
    /\ IF session_id \in DOMAIN active_connections
       THEN LET c == active_connections[session_id] IN
            \E sent \in BOOLEAN :
               IF sent /\ websockets[c].state \in {"open", "disconnected"}
               THEN /\ delivered' = [delivered EXCEPT ![c] = Append(@, message)]
                    /\ last_push' = [session_id |-> session_id, message |-> message,
                                     outcome |-> "sent", raised |-> FALSE]
               ELSE /\ UNCHANGED delivered
                    /\ last_push' = [session_id |-> session_id, message |-> message,
                                     outcome |-> "send_failed", raised |-> TRUE]
       ELSE /\ UNCHANGED delivered
            /\ last_push' = [session_id |-> session_id, message |-> message,
                             outcome |-> "dropped", raised |-> FALSE]
    /\ UNCHANGED <<active_connections, websockets>>
    /\ UNCHANGED <<jobvars, reply>>

\* broadcast_update(session_id, message): when the session has an entry, the
\* message is sent to the registered connection (send_json returns); a send
\* that raises is logged and swallowed.
broadcast_update(session_id, message) ==
    /\ npush < MaxPushes
    /\ npush' = npush + 1
    /\ pushed' = pushed \cup {session_id}
    /\ IF session_id \in DOMAIN active_connections
       THEN LET c == active_connections[session_id] IN
            \E sent \in BOOLEAN :
               IF sent /\ websockets[c].state \in {"open", "disconnected"}
               THEN /\ delivered' = [delivered EXCEPT ![c] = Append(@, message)]
                    /\ last_push' = [session_id |-> session_id, message |-> message,
                                     outcome |-> "sent", raised |-> FALSE]
               ELSE /\ UNCHANGED delivered
                    /\ last_push' = [session_id |-> session_id, message |-> message,
                                     outcome |-> "send_failed", raised |-> FALSE]
       ELSE /\ UNCHANGED delivered
            /\ last_push' = [session_id |-> session_id, message |-> message,
                             outcome |-> "dropped", raised |-> FALSE]
    /\ UNCHANGED <<active_connections, websockets>>
    /\ UNCHANGED <<jobvars, reply>>

\* ------------------------------------------------------- specification
\* The job lifecycle: submissions, runs and deletes.  A delete that is answered
\* 404 or 500 changes nothing in the store, so it is a stuttering step here;
\* the answers are observed under ApiSpec.
Next ==
    \/ generate_content
    \/ \E c \in Ids : delete_content(c, [code |-> 204]) /\ UNCHANGED reply
    \/ \E k \in Ids : process_content_task(k)

Spec == Init /\ [][Next]_vars

\* The notification channel: clients open and close WebSockets while callers
\* push messages.
ChannelNext ==
    \/ \E c \in Connections : websocket_endpoint(c)
    \/ \E c \in Connections : ws_client_close(c)
    \/ \E session_id \in Ids, message \in Messages : broadcast_update(session_id, message)

ChannelSpec == Init /\ [][ChannelNext]_vars

\* The REST surface: one client's requests against the store, with the last
\* answer kept in reply; submissions fill the store, no run is scheduled.
ApiNext ==
    \/ generate_content
    \/ \E c \in Ids : get_content(c)
    \/ \E k \in Ids : get_job_status(k)
    \/ \E c \in Ids, response \in DeleteResponses :
            delete_content(c, response) /\ Answer("delete_content", c, response)
    \/ \E c \in Ids, format \in Formats : export_content(c, format)
    \/ \E skip \in 0..1, limit \in 1..MaxSubmissions : list_contents(skip, limit)

ApiSpec == Init /\ [][ApiNext]_vars

\* ===================================================================
\* Properties
\* ===================================================================

C3_ProgressMonotonic ==
    /\ [](\A k \in DOMAIN processing_jobs :
            processing_jobs[k].progress_percent = 100
                <=> processing_jobs[k].status = COMPLETED)
    /\ [][\A k \in DOMAIN processing_jobs \cap DOMAIN processing_jobs' :
            processing_jobs'[k].progress_percent >= processing_jobs[k].progress_percent
       ]_vars

\* C3 witness: the final commit (progress_percent set to 100) failed after both
\* external calls succeeded, and the except clause recorded the job as FAILED.
C3_Witness ==
    \E k \in DOMAIN processing_jobs :
        /\ calls[k] = <<"extract_content", "generate_content">>
        /\ processing_jobs[k].status = FAILED
        /\ processing_jobs[k].error_message = "commit failed"
        /\ processing_jobs[k].progress_percent = 50

\* C4 (as claimed): once the run of a job whose extractor or generator call
\* raised has ended, the job (if still in the store) is FAILED with an
\* error_message, error_code "PROCESSING_ERROR" and completed_at, and its
\* Content has no generated_content and no summary.
C4_ExternalFailureRecorded ==
    \A k \in DOMAIN processing_jobs :
        ( /\ pc[k] \in {"returned", "raised"}
          /\ calls[k] # <<>>
          /\ calls[k][Len(calls[k])] = "raised" )
        => /\ processing_jobs[k].status = FAILED
           /\ processing_jobs[k].error_message # NULL
           /\ processing_jobs[k].error_code = "PROCESSING_ERROR"
           /\ processing_jobs[k].completed_at # NULL
           /\ contents[processing_jobs[k].content_id].generated_content = <<>>
           /\ contents[processing_jobs[k].content_id].summary = NULL

\* C5 (as claimed): no run of process_content_task ends with an exception
\* leaving it.
C5_NothingRaisedPastThePipeline ==
    \A k \in Ids : pc[k] # "raised"

\* C6: once the persisted status of a job is COMPLETED, FAILED or CANCELLED, no
\* step changes any column of its row.
C6_TerminalImmutable ==
    [][\A k \in DOMAIN processing_jobs \cap DOMAIN processing_jobs' :
            processing_jobs[k].status \in Terminal
                => processing_jobs'[k] = processing_jobs[k]
      ]_vars

\* C6 witness: a job is terminal, its run has returned, and the other
\* submission's run is still under way.
C6_Witness ==
    \E k \in DOMAIN processing_jobs : \E o \in DOMAIN processing_jobs :
        /\ processing_jobs[k].status \in Terminal
        /\ pc[k] = "returned"
        /\ o # k
        /\ processing_jobs[o].status = PROCESSING
        /\ pc[o] = "generating"

\* C7 (as claimed): every job in the store has exactly one scheduled run, with
\* its id and its session_id.
C7_ScheduledExactlyOnce ==
    \A j \in DOMAIN processing_jobs :
        Cardinality({ t \in 1..Len(background_tasks) :
            /\ background_tasks[t].job_id = j
            /\ background_tasks[t].session_id = processing_jobs[j].session_id }) = 1

\* C8 (as claimed, in the form a finite run refutes): a run that has ended
\* leaves its job, if still in the store, COMPLETED or FAILED; otherwise the
\* job stays PENDING or PROCESSING for ever, as nothing else writes the row.
C8_RunEndsTerminal ==
    \A k \in DOMAIN processing_jobs :
        pc[k] \in {"returned", "raised"}
            => processing_jobs[k].status \in {COMPLETED, FAILED}

\* C9 (as claimed): a job that has passed a checkpoint (its persisted status is
\* no longer PENDING) has had a message pushed for its session_id.
C9_CheckpointPushed ==
    \A k \in DOMAIN processing_jobs :
        processing_jobs[k].status # PENDING
            => processing_jobs[k].session_id \in pushed

\* C10: a call of broadcast_update sends (send_json is called with the
\* message, on the registered connection) exactly when the session has an
\* entry in active_connections at the call; otherwise the message is dropped;
\* the call never changes the registry and never raises, also when the send
\* fails; and no other step hands a message to a connection (nothing is
\* buffered and replayed).
C10_BestEffortPush ==
    [][ /\ npush' = npush => delivered' = delivered
        /\ npush' # npush =>
            LET sid == last_push'.session_id
                msg == last_push'.message
            IN  /\ active_connections' = active_connections
                /\ ~last_push'.raised
                /\ IF sid \in DOMAIN active_connections
                   THEN \/ /\ last_push'.outcome = "sent"
                           /\ delivered' = [delivered EXCEPT
                                  ![active_connections[sid]] = Append(@, msg)]
                        \/ /\ last_push'.outcome = "send_failed"
                           /\ delivered' = delivered
                   ELSE /\ last_push'.outcome = "dropped"
                        /\ delivered' = delivered
      ]_vars

\* C10 witness: a message was dropped for a session that had no entry, a
\* connection registered for that session afterwards, and it was sent nothing.
C10_Witness ==
    /\ last_push.outcome = "dropped"
    /\ last_push.session_id \in DOMAIN active_connections
    /\ delivered[active_connections[last_push.session_id]] = <<>>
    /\ npush = 1

\* C11: active_connections holds at most one connection per session id, and
\* the connection it holds for a session was opened for that session; a
\* connection that registers is the session's entry from then on, whatever
\* entry the session had before (last-writer-wins), and the entry stays as it
\* is until a connection of that session registers or ends.
C11_LastWriterWins ==
    /\ [](\A sid \in DOMAIN active_connections :
            /\ Cardinality({c \in Connections : active_connections[sid] = c}) = 1
            /\ websockets[active_connections[sid]].state \in {"open", "disconnected"}
            /\ websockets[active_connections[sid]].session_id = sid)
    /\ [][ /\ \A c \in Connections :
                (websockets[c].state = "accepting" /\ websockets'[c].state = "open")
                    => /\ websockets[c].session_id \in DOMAIN active_connections'
                       /\ active_connections'[websockets[c].session_id] = c
           /\ \A sid \in DOMAIN active_connections :
                (\A c \in Connections :
                    (websockets[c].state # "none" /\ websockets[c].session_id = sid)
                        => (websockets'[c].state = websockets[c].state
                            \/ websockets'[c].state \notin {"open", "closed"}))
                    => /\ sid \in DOMAIN active_connections'
                       /\ active_connections'[sid] = active_connections[sid]
      ]_vars

\* C11 witness: both connections are open for one session, connection 2
\* registered first and connection 1 after it, and the entry is connection 1.
C11_Witness ==
    /\ websockets[1].state = "open" /\ websockets[2].state = "open"
    /\ websockets[1].session_id = websockets[2].session_id
    /\ active_connections[websockets[1].session_id] = 1

\* C12 (as claimed): a message is handed only to a connection that is open: no
\* step sends to a connection whose client has disconnected (the endpoint has
\* not yet removed its entry) or that has ended.
C12_NoSendToClosing ==
    [][\A c \in Connections :
            delivered'[c] # delivered[c] => websockets[c].state = "open"
      ]_vars

\* C13: a step that deletes a Content row (delete_content committed) removes
\* that row and every ProcessingJob row that references it, and nothing else:
\* afterwards no job row references the deleted content, and every other
\* Content and ProcessingJob row is as it was.
C13_DeleteCascades ==
    [][\A cid \in DOMAIN contents \ DOMAIN contents' :
            /\ contents' = Without(contents, {cid})
            /\ processing_jobs' = Without(processing_jobs,
                   {j \in DOMAIN processing_jobs : processing_jobs[j].content_id = cid})
            /\ \A j \in DOMAIN processing_jobs' : processing_jobs'[j].content_id # cid
      ]_vars

\* C13 witness: submission 1 was accepted and its content has been deleted with
\* its job, while the content and the job of submission 2 are in the store,
\* the job in the middle of its run.
C13_Witness ==
    /\ Len(responses) = 2
    /\ responses[1].code = 202 /\ responses[2].code = 202
    /\ DOMAIN contents = {2}
    /\ DOMAIN processing_jobs = {responses[2].job_id}
    /\ processing_jobs[responses[2].job_id].content_id = 2
    /\ processing_jobs[responses[2].job_id].progress_percent = 50

\* C14: the external calls of a job's run, in order, are: none; the extractor;
\* the extractor, which raised; the extractor and then the generator; or the
\* extractor and then the generator, which raised.  So each is called at most
\* once, the generator only after the extractor returned, and nothing is
\* called after a call raised.
C14_NoRetry ==
    \A k \in Ids :
        calls[k] \in { <<>>,
                       <<"extract_content">>,
                       <<"extract_content", "raised">>,
                       <<"extract_content", "generate_content">>,
                       <<"extract_content", "generate_content", "raised">> }

\* C14 witness: the run of one job has ended after its extractor call raised,
\* and the run of the other has ended after its generator call raised.
C14_Witness ==
    /\ calls[1] = <<"extract_content", "raised">>
    /\ calls[2] = <<"extract_content", "generate_content", "raised">>
    /\ pc[1] = "returned" /\ pc[2] = "returned"

\* C15 (as claimed): a run that has returned after the extractor and the
\* generator both returned, with no commit having failed, leaves its job
\* COMPLETED with progress_percent 100, current_step "Complete!" and
\* completed_at set, and its Content holding what the extractor and the
\* generator returned (raw_text, summary, key_points, generated_content).
C15_SuccessWrittenBack ==
    \A k \in DOMAIN processing_jobs :
        ( /\ pc[k] = "returned"
          /\ calls[k] = <<"extract_content", "generate_content">>
          /\ processing_jobs[k].error_message # "commit failed" )
        => /\ processing_jobs[k].status = COMPLETED
           /\ processing_jobs[k].progress_percent = 100
           /\ processing_jobs[k].current_step = "Complete!"
           /\ processing_jobs[k].completed_at # NULL
           /\ \E r \in ExtractResults, g \in GenerateResults :
                LET row == contents[processing_jobs[k].content_id]
                IN  /\ row.raw_text = Get(r, "text", "")
                    /\ row.summary = Get(r, "summary", NULL)
                    /\ row.key_points = Get(r, "key_points", <<>>)
                    /\ row.generated_content = g

\* C16 (as claimed): when a run starts (it leaves "queued") for a job id that
\* has no row, the run returns without raising, writes nothing to the store
\* and has called neither the extractor nor the generator.
C16_MissingJobNoOp ==
    [][\A k \in Ids :
            (pc[k] = "queued" /\ pc'[k] # "queued" /\ k \notin DOMAIN processing_jobs)
                => /\ pc'[k] = "returned"
                   /\ contents' = contents
                   /\ processing_jobs' = processing_jobs
                   /\ calls'[k] = <<>>
      ]_vars

\* C19 (as claimed): in every state of the store, a job whose status is
\* PROCESSING has started_at set, progress_percent at least 20 and a
\* current_step.
C19_FirstCheckpointAtomic ==
    \A k \in DOMAIN processing_jobs :
        processing_jobs[k].status = PROCESSING
            => /\ processing_jobs[k].started_at # NULL
               /\ processing_jobs[k].progress_percent >= 20
               /\ processing_jobs[k].current_step # NULL

\* C20 (as claimed): at every call of the extractor the store shows the job as
\* PROCESSING with progress_percent 20 and current_step "Extracting
\* content...", and at every call of the generator it shows progress_percent
\* 50 and current_step "Generating content...".
C20_CommittedBeforeCall ==
    [][\A k \in Ids :
            calls'[k] # calls[k]
                => /\ k \in DOMAIN processing_jobs
                   /\ processing_jobs[k].status = PROCESSING
                   /\ IF calls[k] = <<>>
                      THEN /\ processing_jobs[k].progress_percent = 20
                           /\ processing_jobs[k].current_step = "Extracting content..."
                      ELSE /\ processing_jobs[k].progress_percent = 50
                           /\ processing_jobs[k].current_step = "Generating content..."
      ]_vars

\* C20 (amended): at every call of the extractor the run's job object is
\* PROCESSING with progress_percent 20 and current_step "Extracting
\* content...", at every call of the generator it has progress_percent 50 and
\* current_step "Generating content...", and in both cases nothing of it is
\* pending: the job's row, unless a delete_content has removed it since the
\* commit, shows exactly the object.
C20_CommittedBeforeCallUnlessDeleted ==
    [][\A k \in Ids :
            calls'[k] # calls[k]
                => /\ job[k].status = PROCESSING
                   /\ IF calls[k] = <<>>
                      THEN /\ job[k].progress_percent = 20
                           /\ job[k].current_step = "Extracting content..."
                      ELSE /\ job[k].progress_percent = 50
                           /\ job[k].current_step = "Generating content..."
                   /\ k \in DOMAIN processing_jobs => processing_jobs[k] = job[k]
      ]_vars

\* C20 witness: the generator has been called for job 1, whose row shows the
\* second checkpoint, and the extractor has been called for job 2, whose row
\* was deleted during its run.
C20_Witness ==
    /\ calls[1] = <<"extract_content", "generate_content">>
    /\ pc[1] = "generated"
    /\ 1 \in DOMAIN processing_jobs
    /\ processing_jobs[1].progress_percent = 50
    /\ calls[2] = <<"extract_content">>
    /\ pc[2] = "extracted"
    /\ 2 \notin DOMAIN processing_jobs

\* C17 (as claimed): any two internal-error (500) responses given to requests,
\* whatever the handler and whatever the internal error, have the same body.
C17_GenericInternalError ==
    LET internal_errors ==
            { responses[n] : n \in { m \in 1..Len(responses) : responses[m].code = 500 } }
                \cup (IF reply.response.code = 500 THEN {reply.response} ELSE {})
    IN  \A x, y \in internal_errors : x = y

\* C18 (as claimed): get_content, get_job_status, delete_content and
\* export_content, called with an id that has no row, answer 404 (not found)
\* and leave the store unchanged.
C18_NotFound ==
    [][reply' # reply =>
        LET handler == reply'.request[1]
            id == reply'.request[2]
        IN  ( \/ /\ handler \in {"get_content", "delete_content", "export_content"}
                 /\ id \notin DOMAIN contents
              \/ /\ handler = "get_job_status"
                 /\ id \notin DOMAIN processing_jobs )
            => /\ reply'.response.code = 404
               /\ contents' = contents
               /\ processing_jobs' = processing_jobs
      ]_vars

\* C18 (amended): get_content, get_job_status, delete_content and
\* export_content, called with an id that has no row, leave the store
\* unchanged and answer 404 with the detail "Content not found" ("Job not
\* found" for get_job_status), unless the lookup itself raises an exception e,
\* which is answered as the internal error (500) of that exception.
C18_NotFoundUnlessLookupFails ==
    [][reply' # reply =>
        LET handler == reply'.request[1]
            id == reply'.request[2]
        IN  ( \/ /\ handler \in {"get_content", "delete_content", "export_content"}
                 /\ id \notin DOMAIN contents
              \/ /\ handler = "get_job_status"
                 /\ id \notin DOMAIN processing_jobs )
            => /\ \/ reply'.response = HTTPException(404,
                        IF handler = "get_job_status" THEN "Job not found"
                        ELSE "Content not found")
                  \/ \E e \in Errors : reply'.response = HTTPException(500, e)
               /\ contents' = contents
               /\ processing_jobs' = processing_jobs
      ]_vars

\* C18 witness: content 1 was created and deleted, a second delete of it has
\* just been answered 404, and content 2 is still in the store.
C18_Witness ==
    /\ reply.request = <<"delete_content", 1>>
    /\ reply.response.code = 404
    /\ Len(responses) = 2
    /\ responses[1].code = 202
    /\ DOMAIN contents = {2}

\* C21: in every state every ProcessingJob row references a Content row that
\* is in the store (content_id is one column, so exactly one), and a job row
\* or a Content row only ever enters the store with the submission that
\* creates it: a run whose Content was deleted under it neither keeps nor
\* writes anew a job row without its Content.
C21_JobReferencesContent ==
    /\ [](\A j \in DOMAIN processing_jobs :
            processing_jobs[j].content_id \in DOMAIN contents)
    /\ [][ /\ \A j \in DOMAIN processing_jobs' \ DOMAIN processing_jobs :
                nsub' # nsub /\ j = uuid4(nsub')
           /\ \A c \in DOMAIN contents' \ DOMAIN contents :
                nsub' # nsub /\ c = uuid4(nsub')
           /\ \A j \in DOMAIN processing_jobs \cap DOMAIN processing_jobs' :
                processing_jobs'[j].content_id = processing_jobs[j].content_id
      ]_vars

\* C21 witness: the run of job 1 is in its except clause, about to commit,
\* after both external calls, and its Content and its row have been deleted
\* under it; job 2 and its Content are in the store.
C21_Witness ==
    /\ pc[1] = "handler"
    /\ calls[1] = <<"extract_content", "generate_content">>
    /\ 1 \notin DOMAIN contents
    /\ 1 \notin DOMAIN processing_jobs
    /\ 2 \in DOMAIN processing_jobs
    /\ processing_jobs[2].content_id \in DOMAIN contents

\* C22 (as claimed): a connection that is the entry of its session and stays
\* open over a step is still the entry after the step, unless a connection
\* that registers in this step takes its place: no disconnect of another
\* connection removes its registration.
C22_NewerStaysRegistered ==
    [][\A sid \in DOMAIN active_connections :
            LET c == active_connections[sid]
            IN  (websockets[c].state = "open" /\ websockets'[c].state = "open")
                    => /\ sid \in DOMAIN active_connections'
                       /\ \/ active_connections'[sid] = c
                          \/ websockets[active_connections'[sid]].state = "accepting"
      ]_vars

\* C23 (as claimed): the disconnect handling of a connection (the except
\* clause that follows WebSocketDisconnect) ends with the connection closed,
\* never with an exception raised by the deregistration.
C23_DisconnectNeverRaises ==
    [][\A c \in Connections :
            websockets[c].state = "disconnected"
                => websockets'[c].state \in {"disconnected", "closed"}
      ]_vars

====
